---- MODULE Spec2Model ----
(***************************************************************************)
(* Model of agriturismo_app/app.py: a Flask backend that authenticates     *)
(* users against an identity provider, records stock movements             *)
(* ("carico" = load, "scarico" = unload) for named products in a document  *)
(* store, and serves a dashboard and a per-product detail view.            *)
(*                                                                         *)
(* Python dicts are modelled as TLA+ functions over the keys they hold,    *)
(* Python floats as tagged records (finite value, +inf, -inf, nan), JSON   *)
(* values as tagged records, and the string conversions the code calls     *)
(* (float(), str.strip(), datetime.strptime()) as tables over the bounded  *)
(* set of strings the requests are drawn from.                             *)
(***************************************************************************)
EXTENDS Integers, Sequences, FiniteSets, TLC

\* ------------------------------------------------------------------ bounds

\* Stock transactions committed or under way, over the whole run.
MaxReqs == 3

\* Attempts the store makes to commit one transactional function.
MaxAttempts == 2

\* ------------------------------------------------------------------ floats

Fin(n) == [k |-> "fin", v |-> n]
PosInf == [k |-> "inf", v |-> 0]
NegInf == [k |-> "ninf", v |-> 0]
NaN    == [k |-> "nan", v |-> 0]

FNeg(a) ==
    CASE a.k = "fin"  -> Fin(0 - a.v)
      [] a.k = "inf"  -> NegInf
      [] a.k = "ninf" -> PosInf
      [] OTHER        -> NaN

\* a + b on floats
FAdd(a, b) ==
    CASE a.k = "nan" \/ b.k = "nan"                 -> NaN
      [] a.k = "fin" /\ b.k = "fin"                 -> Fin(a.v + b.v)
      [] a.k = "fin"                                -> b
      [] b.k = "fin"                                -> a
      [] a.k = b.k                                  -> a
      [] OTHER                                      -> NaN

\* a - b on floats
FSub(a, b) == FAdd(a, FNeg(b))

FRank(a) == CASE a.k = "ninf" -> 0 [] a.k = "fin" -> 1 [] OTHER -> 2

\* a < b on floats: every comparison with nan is false
FLt(a, b) ==
    /\ a.k # "nan"
    /\ b.k # "nan"
    /\ \/ FRank(a) < FRank(b)
       \/ a.k = "fin" /\ b.k = "fin" /\ a.v < b.v

\* a == b on floats: nan equals nothing
FEq(a, b) == a.k # "nan" /\ b.k # "nan" /\ a = b

\* Mutant of FLe: a <= b is true only when a < b
FLe_Strict(a, b) == FLt(a, b)

\* a <= b, a > b, a >= b on floats
FLe(a, b) == FLt(a, b) \/ FEq(a, b)
FGt(a, b) == FLt(b, a)
FGe(a, b) == FLe(b, a)

FSign(a) ==
    CASE a.k = "fin" /\ a.v > 0 -> 1
      [] a.k = "fin" /\ a.v < 0 -> 0 - 1
      [] a.k = "fin"            -> 0
      [] a.k = "inf"            -> 1
      [] a.k = "ninf"           -> 0 - 1
      [] OTHER                  -> 2

\* a * b on floats
FMul(a, b) ==
    CASE a.k = "nan" \/ b.k = "nan"   -> NaN
      [] a.k = "fin" /\ b.k = "fin"   -> Fin(a.v * b.v)
      [] FSign(a) = 0 \/ FSign(b) = 0 -> NaN
      [] FSign(a) = FSign(b)          -> PosInf
      [] OTHER                        -> NegInf

\* -------------------------------------------------------------- JSON values

JNull   == [t |-> "null", s |-> "", n |-> 0]
JStr(x) == [t |-> "str", s |-> x, n |-> 0]
JNum(i) == [t |-> "num", s |-> "", n |-> i]
\* a non-empty JSON array or object: truthy, neither a string nor a number
JOther  == [t |-> "other", s |-> "", n |-> 0]

\* Python truthiness of a JSON value
Truthy(j) ==
    CASE j.t = "null" -> FALSE
      [] j.t = "str"  -> j.s # ""
      [] j.t = "num"  -> j.n # 0
      [] OTHER        -> TRUE

\* ------------------------------------------------- conversions of the strings

\* float(s): the float a string converts to, or "ValueError"
FloatOfStr ==
    [s \in {"1", "2", " 2 ", "0", "-1", "nan", "inf", "abc", ""} |->
        CASE s = "1"   -> Fin(1)
          [] s = "2"   -> Fin(2)
          [] s = " 2 " -> Fin(2)
          [] s = "0"   -> Fin(0)
          [] s = "-1"  -> Fin(0 - 1)
          [] s = "nan" -> NaN
          [] s = "inf" -> PosInf
          [] OTHER     -> [k |-> "ValueError", v |-> 0]]

ParsesAsFloat(s) == s \in DOMAIN FloatOfStr /\ FloatOfStr[s].k # "ValueError"

\* float(value) for a JSON number or string
ToFloat(j) ==
    IF j.t = "num" THEN Fin(j.n)
    ELSE IF ParsesAsFloat(j.s) THEN FloatOfStr[j.s]
    ELSE [k |-> "ValueError", v |-> 0]

\* s.strip()
Strip(s) ==
    CASE s = " olio " -> "olio"
      [] s = "   "    -> ""
      [] s = " 2 "    -> "2"
      [] OTHER        -> s

\* datetime.strptime(s, '%Y-%m-%d'): the day as the number yyyymmdd, or 0 for
\* ValueError. %m and %d accept one or two digits.
Strptime(s) ==
    CASE s = "2025-04-01" -> 20250401
      [] s = "2025-05-01" -> 20250501
      [] s = "2025-5-1"   -> 20250501
      [] s = "2025-06-01" -> 20250601
      [] OTHER            -> 0

\* ------------------------------------------------------------ Python values

\* None where a string is expected; no string of the model equals it
None == "None"

\* None where a float is expected
FNone == [k |-> "none", v |-> 0]

\* firestore.SERVER_TIMESTAMP: replaced by the store's clock when written
SERVER_TIMESTAMP == 0

\* dict.get(key, default)
Get(d, key, default) == IF key \in DOMAIN d THEN d[key] ELSE default

\* truthiness of a value that is a string or None
TruthyStr(s) == s # None /\ s # ""

\* ----------------------------------------------------- the movement validator

RequiredFields == <<"date", "movementType", "productName", "quantity">>

\* The body of the loop over required_fields for one field: the error it
\* returns, or "" when the field passes.
RequiredFieldError(data, field) ==
    LET value == data[field]
        isExpected == IF field = "quantity" THEN value.t = "num"
                      ELSE value.t = "str"
    IN  IF value.t = "null" THEN "Missing required field"
        ELSE IF ~isExpected /\ field = "quantity" /\ value.t = "str"
                /\ ~ParsesAsFloat(value.s)
             THEN "Invalid data type"
        ELSE IF ~isExpected /\ ~(field = "quantity" /\ value.t = "str")
             THEN "Invalid data type"
        ELSE IF value.t = "str" /\ Strip(value.s) = ""
                /\ field \in {"date", "movementType", "productName"}
             THEN "Field must not be empty"
        ELSE ""

\* The first error of the loop over required_fields, in the order of the dict
RECURSIVE FirstRequiredError(_, _)
FirstRequiredError(data, i) ==
    IF i > Len(RequiredFields) THEN ""
    ELSE IF RequiredFieldError(data, RequiredFields[i]) # ""
         THEN RequiredFieldError(data, RequiredFields[i])
         ELSE FirstRequiredError(data, i + 1)

\* The unitPrice block: the parsed price (FNone when absent), or an error
UnitPriceError(data) ==
    LET raw == data["unitPrice"]
    IN  IF raw.t = "null" THEN ""
        ELSE IF raw.t \notin {"num", "str"} THEN "Invalid data type for unitPrice."
        ELSE IF ToFloat(raw).k = "ValueError" THEN "Invalid unitPrice."
        ELSE IF FLe(ToFloat(raw), Fin(0)) THEN "unitPrice must be a positive number."
        ELSE ""

UnitPrice(data) ==
    IF data["unitPrice"].t = "null" THEN FNone ELSE ToFloat(data["unitPrice"])

\* The date validation loop, for one of date and expiryDate
DateFieldError(data, field) ==
    LET j == data[field]
    IN  IF ~Truthy(j) THEN ""
        ELSE IF j.t # "str" THEN "must be a string in YYYY-MM-DD format"
        ELSE IF Strptime(j.s) = 0 THEN "Invalid date format. Use YYYY-MM-DD."
        ELSE ""

\* supplier.strip() if supplier else None
StripOrNone(j) == IF Truthy(j) THEN Strip(j.s) ELSE None

\* The dict movement_record
MovementRecord(data, user_id) ==
    LET quantity == ToFloat(data["quantity"])
        unit_price == UnitPrice(data)
    IN  [userId       |-> user_id,
         date         |-> data["date"].s,
         supplier     |-> StripOrNone(data["supplier"]),
         movementType |-> data["movementType"].s,
         productName  |-> Strip(data["productName"].s),
         quantity     |-> quantity,
         unitPrice    |-> unit_price,
         totalValue   |-> IF data["movementType"].s = "carico" /\ unit_price # FNone
                          THEN FMul(quantity, unit_price) ELSE Fin(0),
         expiryDate   |-> IF Truthy(data["expiryDate"]) THEN data["expiryDate"].s
                          ELSE None,
         notes        |-> StripOrNone(data["notes"]),
         createdAt    |-> SERVER_TIMESTAMP]

\* The validation of create_movement, from the payload check to the optional
\* fields: the error of the first check that fails, or "" for a payload that
\* reaches the transaction.
ValidationError(data) ==
    IF \A f \in DOMAIN data : data[f].t = "null" THEN "Invalid JSON payload"
    ELSE IF FirstRequiredError(data, 1) # "" THEN FirstRequiredError(data, 1)
    ELSE IF Strip(data["productName"].s) = ""
         THEN "productName must not be empty or just whitespace."
    ELSE IF data["movementType"].s \notin {"carico", "scarico"}
         THEN "Invalid movementType."
    ELSE IF FLe(ToFloat(data["quantity"]), Fin(0))
         THEN "Quantity must be a positive number."
    ELSE IF UnitPriceError(data) # "" THEN UnitPriceError(data)
    ELSE IF DateFieldError(data, "date") # "" THEN DateFieldError(data, "date")
    ELSE IF DateFieldError(data, "expiryDate") # ""
         THEN DateFieldError(data, "expiryDate")
    ELSE IF data["supplier"].t \notin {"null", "str"}
         THEN "Invalid data type for supplier."
    ELSE IF data["notes"].t \notin {"null", "str"}
         THEN "Invalid data type for notes."
    ELSE ""

\* ------------------------------------------- the transactional stock function

\* A product document is the dict of its fields, with the snapshot's exists
\* flag beside them.
NoDoc == [exists |-> FALSE]

\* Mutant of ShouldUpdateExpiry: an expiry date that is not later than the
\* stored one replaces it
ShouldUpdateExpiry_NotStrict(product_data, movement_data) ==
    \/ ~TruthyStr(Get(product_data, "nearestExpiry", None))
    \/ /\ Strptime(movement_data["expiryDate"]) # 0
       /\ Strptime(Get(product_data, "nearestExpiry", None)) # 0
       /\ Strptime(movement_data["expiryDate"])
             <= Strptime(Get(product_data, "nearestExpiry", None))

\* Mutant of ShouldUpdateExpiry: a stored nearestExpiry that is no date is
\* replaced
ShouldUpdateExpiry_ReplacesMalformed(product_data, movement_data) ==
    \/ ~TruthyStr(Get(product_data, "nearestExpiry", None))
    \/ Strptime(Get(product_data, "nearestExpiry", None)) = 0
    \/ /\ Strptime(movement_data["expiryDate"]) # 0
       /\ Strptime(movement_data["expiryDate"])
             < Strptime(Get(product_data, "nearestExpiry", None))

\* The expiry block of a load: whether nearestExpiry is written
ShouldUpdateExpiry(product_data, movement_data) ==
    LET new_expiry_date_str == movement_data["expiryDate"]
        current_expiry_str  == Get(product_data, "nearestExpiry", None)
    IN  IF ~TruthyStr(current_expiry_str) THEN TRUE
        ELSE /\ Strptime(new_expiry_date_str) # 0
             /\ Strptime(current_expiry_str) # 0
             /\ Strptime(new_expiry_date_str) < Strptime(current_expiry_str)

\* Mutant of LoadPayload: the load stores its own quantity instead of adding
\* it to the quantity of the document
LoadPayload_Overwrites(product_snapshot, movement_data, user_id) ==
    [quantity      |-> movement_data["quantity"],
     lastUpdatedBy |-> user_id,
     productName   |-> movement_data["productName"]]

\* Mutant of LoadPayload: a load with an expiry date always writes it to
\* nearestExpiry
LoadPayload_LastExpiryWins(product_snapshot, movement_data, user_id) ==
    LET base == [quantity      |-> FAdd(Get(product_snapshot, "quantity", Fin(0)),
                                        movement_data["quantity"]),
                 lastUpdatedBy |-> user_id,
                 productName   |-> movement_data["productName"],
                 nearestExpiry |-> movement_data["expiryDate"]]
        keep == IF TruthyStr(movement_data["expiryDate"])
                THEN DOMAIN base ELSE DOMAIN base \ {"nearestExpiry"}
    IN  [f \in keep \cup (IF product_snapshot.exists THEN {} ELSE {"createdAt"}) |->
            IF f = "createdAt" THEN SERVER_TIMESTAMP ELSE base[f]]

\* Mutant of LoadPayload: every load writes createdAt, whether the document
\* exists or not
LoadPayload_AlwaysStampsCreation(product_snapshot, movement_data, user_id) ==
    LET expires == /\ TruthyStr(movement_data["expiryDate"])
                   /\ ShouldUpdateExpiry(product_snapshot, movement_data)
        fields == {"quantity", "lastUpdatedBy", "productName", "createdAt"}
                     \cup (IF expires THEN {"nearestExpiry"} ELSE {})
    IN  [f \in fields |->
            CASE f = "quantity"      -> FAdd(Get(product_snapshot, "quantity", Fin(0)),
                                             movement_data["quantity"])
              [] f = "lastUpdatedBy" -> user_id
              [] f = "productName"   -> movement_data["productName"]
              [] f = "createdAt"     -> SERVER_TIMESTAMP
              [] OTHER               -> movement_data["expiryDate"]]

\* update_payload of a load
LoadPayload(product_snapshot, movement_data, user_id) ==
    LET base == [quantity      |-> FAdd(Get(product_snapshot, "quantity", Fin(0)),
                                        movement_data["quantity"]),
                 lastUpdatedBy |-> user_id,
                 productName   |-> movement_data["productName"]]
        created == IF ~product_snapshot.exists
                   THEN [createdAt |-> SERVER_TIMESTAMP] ELSE [x \in {} |-> 0]
        expiry == IF TruthyStr(movement_data["expiryDate"])
                     /\ ShouldUpdateExpiry(product_snapshot, movement_data)
                  THEN [nearestExpiry |-> movement_data["expiryDate"]]
                  ELSE [x \in {} |-> 0]
    IN  [f \in DOMAIN base \cup DOMAIN created \cup DOMAIN expiry |->
            IF f \in DOMAIN expiry THEN expiry[f]
            ELSE IF f \in DOMAIN created THEN created[f]
            ELSE base[f]]

\* Mutant of update_product_stock_transactional: an unload does not look at
\* whether the document exists before it reads the quantity
update_product_stock_transactional_NoExistsCheck(product_snapshot, movement_data, user_id) ==
    IF movement_data["movementType"] = "carico"
    THEN [error |-> "", op |-> "set_merge",
          payload |-> LoadPayload(product_snapshot, movement_data, user_id)]
    ELSE IF FLt(Get(product_snapshot, "quantity", Fin(0)), movement_data["quantity"])
    THEN [error |-> "Insufficient stock.", op |-> "none", payload |-> NoDoc]
    ELSE [error |-> "", op |-> "update",
          payload |-> [quantity |-> FSub(Get(product_snapshot, "quantity", Fin(0)),
                                         movement_data["quantity"]),
                       lastUpdatedBy |-> user_id]]

\* Mutant of update_product_stock_transactional: an unload writes the
\* quantity it read, not the difference
update_product_stock_transactional_UnloadKeepsQuantity(product_snapshot, movement_data, user_id) ==
    IF movement_data["movementType"] = "carico"
    THEN [error |-> "", op |-> "set_merge",
          payload |-> LoadPayload(product_snapshot, movement_data, user_id)]
    ELSE IF ~product_snapshot.exists
    THEN [error |-> "Product not found for discharge.", op |-> "none", payload |-> NoDoc]
    ELSE IF FLt(Get(product_snapshot, "quantity", Fin(0)), movement_data["quantity"])
    THEN [error |-> "Insufficient stock.", op |-> "none", payload |-> NoDoc]
    ELSE [error |-> "", op |-> "update",
          payload |-> [quantity |-> Get(product_snapshot, "quantity", Fin(0)),
                       lastUpdatedBy |-> user_id]]

\* Mutant of update_product_stock_transactional: an unload that empties the
\* stock clears nearestExpiry
update_product_stock_transactional_UnloadClearsExpiry(product_snapshot, movement_data, user_id) ==
    IF movement_data["movementType"] = "carico"
    THEN [error |-> "", op |-> "set_merge",
          payload |-> LoadPayload(product_snapshot, movement_data, user_id)]
    ELSE IF ~product_snapshot.exists
    THEN [error |-> "Product not found for discharge.", op |-> "none", payload |-> NoDoc]
    ELSE IF FLt(Get(product_snapshot, "quantity", Fin(0)), movement_data["quantity"])
    THEN [error |-> "Insufficient stock.", op |-> "none", payload |-> NoDoc]
    ELSE IF FEq(Get(product_snapshot, "quantity", Fin(0)), movement_data["quantity"])
    THEN [error |-> "", op |-> "update",
          payload |-> [quantity |-> Fin(0), lastUpdatedBy |-> user_id,
                       nearestExpiry |-> None]]
    ELSE [error |-> "", op |-> "update",
          payload |-> [quantity |-> FSub(Get(product_snapshot, "quantity", Fin(0)),
                                         movement_data["quantity"]),
                       lastUpdatedBy |-> user_id]]

\* Mutant of update_product_stock_transactional: an unload writes the
\* quantity only
update_product_stock_transactional_UnloadKeepsUpdater(product_snapshot, movement_data, user_id) ==
    IF movement_data["movementType"] = "carico"
    THEN [error |-> "", op |-> "set_merge",
          payload |-> LoadPayload(product_snapshot, movement_data, user_id)]
    ELSE IF ~product_snapshot.exists
    THEN [error |-> "Product not found for discharge.", op |-> "none", payload |-> NoDoc]
    ELSE IF FLt(Get(product_snapshot, "quantity", Fin(0)), movement_data["quantity"])
    THEN [error |-> "Insufficient stock.", op |-> "none", payload |-> NoDoc]
    ELSE [error |-> "", op |-> "update",
          payload |-> [quantity |-> FSub(Get(product_snapshot, "quantity", Fin(0)),
                                         movement_data["quantity"])]]

\* The function run inside the transaction on the snapshot it read: the
\* ValueError it raises ("" when it returns), and the write it stages.
update_product_stock_transactional(product_snapshot, movement_data, user_id) ==
    LET movement_type == movement_data["movementType"]
        quantity == movement_data["quantity"]
        current_quantity == Get(product_snapshot, "quantity", Fin(0))
    IN  IF movement_type = "carico"
        THEN [error |-> "", op |-> "set_merge",
              payload |-> LoadPayload(product_snapshot, movement_data, user_id)]
        ELSE IF movement_type = "scarico"
        THEN IF ~product_snapshot.exists
             THEN [error |-> "Product not found for discharge.", op |-> "none",
                   payload |-> NoDoc]
             ELSE IF FLt(current_quantity, quantity)
             THEN [error |-> "Insufficient stock.", op |-> "none", payload |-> NoDoc]
             ELSE [error |-> "", op |-> "update",
                   payload |-> [quantity |-> FSub(current_quantity, quantity),
                                lastUpdatedBy |-> user_id]]
        ELSE [error |-> "Invalid movement type in transaction", op |-> "none",
              payload |-> NoDoc]

\* transaction.set(ref, payload, merge=True) and transaction.update(ref,
\* payload) as the store applies them at commit time `ts`: the fields of the
\* payload replace or extend those of the document, SERVER_TIMESTAMP becomes ts.
ApplyWrite(doc, payload, ts) ==
    [f \in DOMAIN doc \cup DOMAIN payload |->
        IF f = "exists" THEN TRUE
        ELSE IF f \in DOMAIN payload
             THEN (IF f = "createdAt" /\ payload[f] = SERVER_TIMESTAMP
                   THEN ts ELSE payload[f])
             ELSE doc[f]]

\* --------------------------------------------------------------- the inputs

Clients == {"c1", "c2"}

Emails == {"anna@casale.it", "bruno@casale.it"}

\* The uid the identity provider gives the user it creates for an email
UidOf == [e \in Emails |-> IF e = "anna@casale.it" THEN "uidAnna" ELSE "uidBruno"]

Uids == {UidOf[e] : e \in Emails}

\* The ID tokens a client may send, and the account each one was issued for
TokenEmail ==
    [tok \in {"tokAnna", "tokBruno"} |->
        IF tok = "tokAnna" THEN "anna@casale.it" ELSE "bruno@casale.it"]

\* re.match(r"[^@]+@[^@]+\.[^@]+", email)
EmailMatches(email) == email \in Emails

\* len(password)
PasswordLen(pw) == IF pw = "segreto1" THEN 8 ELSE IF pw = "abc" THEN 3 ELSE 0

MinPasswordLen == 6

ProductNames == {"olio", "vino"}

\* A JSON payload of POST /movements; supplier and notes are not sent
Payload(movementType, productName, quantity, expiryDate) ==
    [date         |-> JStr("2025-04-01"),
     movementType |-> JStr(movementType),
     productName  |-> JStr(productName),
     quantity     |-> quantity,
     unitPrice    |-> JNull,
     expiryDate   |-> expiryDate,
     supplier     |-> JNull,
     notes        |-> JNull]

NullPayload == [f \in DOMAIN Payload("", "", JNull, JNull) |-> JNull]

\* ---------------------------------------------------------------- the state

VARIABLES
    idpUsers,    \* identity provider: the emails that have an account
    userDocs,    \* store, collection 'users': uid -> document
    session,     \* per client: the dict of its Flask session cookie
    products,    \* store, collection 'products': name -> document or NoDoc
    updates,     \* store: per product document, how often it was written
    movements,   \* store, collection 'movements': the log, in order of creation
    pc,          \* per client: where its POST /movements request stands
    req,         \* per client: payload, movement_record, user_id and attempt of that request
    txn,         \* per client: what its transaction read and staged
    resp,        \* the response on its way to a client, or NoResponse
    applied      \* history: the stock transactions committed, in commit order,
                 \* each with the movement, the number of commits its request
                 \* saw when it arrived, and the document it left

vars == <<idpUsers, userDocs, session, products, updates, movements,
          pc, req, txn, resp, applied>>

EmptyDict == [x \in {} |-> 0]

NoReq == [user_id |-> None, attempt |-> 0, seen |-> 0, tx |-> 0,
          data |-> EmptyDict, movement_record |-> EmptyDict]

NoTxn == [read |-> 0, payload |-> EmptyDict]

\* A response: the JSON body and status a handler returns, with the client and
\* the request it answers (the route, the URL parameter if it has one, and
\* the JSON payload of a movement that was turned down or of a login)
Response(c, op, status, error, body) ==
    [client |-> c, op |-> op, path |-> "", request |-> EmptyDict,
     status |-> status, error |-> error, body |-> body]

\* No response is on its way to a client
NoResponse == Response("", "none", 0, "", EmptyDict)

Init ==
    /\ idpUsers = {}
    /\ userDocs = EmptyDict
    /\ session = [c \in Clients |-> EmptyDict]
    /\ products = [p \in ProductNames |-> NoDoc]
    /\ updates = [p \in ProductNames |-> 0]
    /\ movements = <<>>
    /\ pc = [c \in Clients |-> "idle"]
    /\ req = [c \in Clients |-> NoReq]
    /\ txn = [c \in Clients |-> NoTxn]
    /\ resp = NoResponse
    /\ applied = <<>>

\* The server timestamp of a write to a collection: later than that of every
\* write the collection has seen, here the ordinal of the write.
ServerTime(writes) == Cardinality(writes) + 1

\* The application takes a step once the response before it has left
Ready == resp = NoResponse

\* The response leaves the server
response_sent ==
    /\ resp # NoResponse
    /\ resp' = NoResponse
    /\ UNCHANGED <<idpUsers, userDocs, session, products, updates, movements,
                   pc, req, txn, applied>>

\* 'user_id' in session
LoggedIn(c) == "user_id" \in DOMAIN session[c]

\* ------------------------------------------------------------ authentication

\* POST /auth/register: the status it answers
RegisterStatus(in) ==
    IF in.email = "" \/ in.password = "" THEN 400
    ELSE IF ~EmailMatches(in.email) THEN 400
    ELSE IF PasswordLen(in.password) < MinPasswordLen THEN 400
    ELSE IF in.email \in idpUsers THEN 409
    ELSE 201

register(c, in) ==
    /\ Ready
    /\ resp' = Response(c, "register", RegisterStatus(in), "",
                    IF RegisterStatus(in) = 201 THEN [uid |-> UidOf[in.email]]
                    ELSE EmptyDict)
    /\ IF RegisterStatus(in) = 201
       THEN /\ idpUsers' = idpUsers \cup {in.email}
            /\ userDocs' = [u \in DOMAIN userDocs \cup {UidOf[in.email]} |->
                              IF u = UidOf[in.email]
                              THEN [email |-> in.email,
                                    createdAt |-> ServerTime(DOMAIN userDocs)]
                              ELSE userDocs[u]]
               ELSE UNCHANGED <<idpUsers, userDocs>>
    /\ UNCHANGED <<session, products, updates, movements, pc, req, txn, applied>>

\* auth.verify_id_token(id_token): the uid, or the error it raises
VerifyIdToken(tok) ==
    IF tok \in DOMAIN TokenEmail /\ TokenEmail[tok] \in idpUsers
    THEN UidOf[TokenEmail[tok]]
    ELSE IF tok = "tokDisabled" THEN "UserDisabledError"
    ELSE "InvalidIdTokenError"

SessionLoginStatus(id_token) ==
    IF id_token.t = "null" THEN 400
    ELSE IF ~Truthy(id_token) \/ id_token.t # "str" THEN 400
    ELSE IF VerifyIdToken(id_token.s) = "InvalidIdTokenError" THEN 401
    ELSE IF VerifyIdToken(id_token.s) = "UserDisabledError" THEN 403
    ELSE 200

\* Mutant of session_login: a login that fails ends the session
session_login_FailureLogsOut(c, id_token) ==
    /\ Ready
    /\ resp' = [Response(c, "sessionLogin", SessionLoginStatus(id_token), "", EmptyDict)
                EXCEPT !.request = [idToken |-> id_token]]
    /\ session' = IF SessionLoginStatus(id_token) = 200
                  THEN [session EXCEPT ![c] = [user_id |-> VerifyIdToken(id_token.s)]]
                  ELSE [session EXCEPT ![c] = EmptyDict]
    /\ UNCHANGED <<idpUsers, userDocs, products, updates, movements,
                   pc, req, txn, applied>>

\* The response carries the JSON payload of the request beside the status
session_login(c, id_token) ==
    /\ Ready
    /\ resp' = [Response(c, "sessionLogin", SessionLoginStatus(id_token), "", EmptyDict)
                EXCEPT !.request = [idToken |-> id_token]]
    /\ session' = IF SessionLoginStatus(id_token) = 200
                  THEN [session EXCEPT ![c] = [user_id |-> VerifyIdToken(id_token.s)]]
                  ELSE session
    /\ UNCHANGED <<idpUsers, userDocs, products, updates, movements,
                   pc, req, txn, applied>>

logout(c) ==
    /\ Ready
    /\ session' = [session EXCEPT ![c] = EmptyDict]
    /\ resp' = Response(c, "logout", 200, "", EmptyDict)
    /\ UNCHANGED <<idpUsers, userDocs, products, updates, movements,
                   pc, req, txn, applied>>

auth_status(c) ==
    /\ Ready
    /\ resp' = Response(c, "status", 200, "",
                    IF LoggedIn(c)
                    THEN [isLoggedIn |-> TRUE, user_id |-> session[c]["user_id"]]
                    ELSE [isLoggedIn |-> FALSE])
    /\ UNCHANGED <<idpUsers, userDocs, session, products, updates, movements,
                   pc, req, txn, applied>>

\* ------------------------------------------------------------ POST /movements

Unchanged_auth == UNCHANGED <<idpUsers, userDocs, session>>

\* login_required: a request without a session is answered 401
movement_unauthenticated(c) ==
    /\ Ready
    /\ pc[c] = "idle"
    /\ ~LoggedIn(c)
    /\ resp' = Response(c, "movement", 401, "Authentication required", EmptyDict)
    /\ Unchanged_auth
    /\ UNCHANGED <<products, updates, movements, pc, req, txn, applied>>

\* The validation returns an error: 400
movement_rejected(c, data) ==
    /\ Ready
    /\ pc[c] = "idle"
    /\ LoggedIn(c)
    /\ ValidationError(data) # ""
    /\ resp' = [Response(c, "movement", 400, ValidationError(data), EmptyDict)
                EXCEPT !.request = data]
    /\ Unchanged_auth
    /\ UNCHANGED <<products, updates, movements, pc, req, txn, applied>>

\* The validation passes: movement_record is built and the transaction starts
movement_validated(c, data) ==
    /\ Ready
    /\ pc[c] = "idle"
    /\ LoggedIn(c)
    /\ ValidationError(data) = ""
    /\ Len(applied) + Cardinality({d \in Clients : pc[d] \in {"run", "commit"}}) < MaxReqs
    /\ req' = [req EXCEPT ![c] =
                  [user_id |-> session[c]["user_id"], attempt |-> 1,
                   seen |-> Len(applied), tx |-> 0, data |-> data,
                   movement_record |-> MovementRecord(data, session[c]["user_id"])]]
    /\ pc' = [pc EXCEPT ![c] = "run"]
    /\ Unchanged_auth
    /\ UNCHANGED <<products, updates, movements, txn, resp, applied>>

ProductOf(c) == req[c].movement_record["productName"]

\* What the transactional function does on the document as it is now
Outcome(c) ==
    update_product_stock_transactional(
        products[ProductOf(c)], req[c].movement_record, req[c].user_id)

\* Mutant of transaction_raises: the movement is added to the log although
\* the transaction raised
transaction_raises_Logs(c) ==
    /\ Ready
    /\ pc[c] = "run"
    /\ Outcome(c).error # ""
    /\ movements' = Append(movements,
                           [id |-> Len(movements) + 1, tx |-> req[c].tx,
                            data |-> [req[c].movement_record EXCEPT
                                         !["createdAt"] = ServerTime(DOMAIN movements)]])
    /\ resp' = Response(c, "movement", 400, Outcome(c).error, EmptyDict)
    /\ pc' = [pc EXCEPT ![c] = "idle"]
    /\ req' = [req EXCEPT ![c] = NoReq]
    /\ UNCHANGED <<idpUsers, userDocs, session, products, updates, txn, applied>>

\* The function raises ValueError: the transaction is rolled back, 400
transaction_raises(c) ==
    /\ Ready
    /\ pc[c] = "run"
    /\ Outcome(c).error # ""
    /\ resp' = Response(c, "movement", 400, Outcome(c).error, EmptyDict)
    /\ pc' = [pc EXCEPT ![c] = "idle"]
    /\ req' = [req EXCEPT ![c] = NoReq]
    /\ Unchanged_auth
    /\ UNCHANGED <<products, updates, movements, txn, applied>>

\* The function returns: its write is staged for the commit
transaction_stages(c) ==
    /\ Ready
    /\ pc[c] = "run"
    /\ Outcome(c).error = ""
    /\ txn' = [txn EXCEPT ![c] =
                  [read |-> updates[ProductOf(c)], payload |-> Outcome(c).payload]]
    /\ pc' = [pc EXCEPT ![c] = "commit"]
    /\ Unchanged_auth
    /\ UNCHANGED <<products, updates, movements, req, resp, applied>>

\* Mutant of CommitAccepted: the write is committed whatever happened to the
\* document since it was read
CommitAccepted_Always(c) == TRUE

\* The store accepts a commit when the document it read was not written since
CommitAccepted(c) == updates[ProductOf(c)] = txn[c].read

transaction_commits(c) ==
    /\ Ready
    /\ pc[c] = "commit"
    /\ CommitAccepted(c)
    /\ products' = [products EXCEPT ![ProductOf(c)] =
                       ApplyWrite(@, txn[c].payload, ServerTime(DOMAIN applied))]
    /\ updates' = [updates EXCEPT ![ProductOf(c)] = @ + 1]
    /\ applied' = Append(applied,
                         [user_id |-> req[c].user_id,
                          seen |-> req[c].seen, ts |-> ServerTime(DOMAIN applied),
                          movement_record |-> req[c].movement_record,
                          doc |-> ApplyWrite(products[ProductOf(c)], txn[c].payload,
                                             ServerTime(DOMAIN applied))])
    /\ req' = [req EXCEPT ![c].tx = Len(applied) + 1]
    /\ txn' = [txn EXCEPT ![c] = NoTxn]
    /\ pc' = [pc EXCEPT ![c] = "append"]
    /\ Unchanged_auth
    /\ UNCHANGED <<movements, resp>>

\* Mutant of transaction_retries: after a refused commit the staged write is
\* offered again as it is, without running the function on the new document
transaction_retries_StaleWrite(c) ==
    /\ Ready
    /\ pc[c] = "commit"
    /\ ~CommitAccepted(c)
    /\ req[c].attempt < MaxAttempts
    /\ req' = [req EXCEPT ![c].attempt = @ + 1]
    /\ txn' = [txn EXCEPT ![c].read = updates[ProductOf(c)]]
    /\ UNCHANGED <<idpUsers, userDocs, session, products, updates, movements,
                   pc, resp, applied>>

\* The commit is refused and the store runs the function again
transaction_retries(c) ==
    /\ Ready
    /\ pc[c] = "commit"
    /\ ~CommitAccepted(c)
    /\ req[c].attempt < MaxAttempts
    /\ req' = [req EXCEPT ![c].attempt = @ + 1]
    /\ txn' = [txn EXCEPT ![c] = NoTxn]
    /\ pc' = [pc EXCEPT ![c] = "run"]
    /\ Unchanged_auth
    /\ UNCHANGED <<products, updates, movements, resp, applied>>

\* The commit is refused for the last time: the store raises, and the handler
\* answers 400 (ValueError) or 500 (any other exception)
transaction_gives_up(c, status) ==
    /\ Ready
    /\ pc[c] = "commit"
    /\ ~CommitAccepted(c)
    /\ req[c].attempt >= MaxAttempts
    /\ resp' = Response(c, "movement", status, "transaction not committed", EmptyDict)
    /\ txn' = [txn EXCEPT ![c] = NoTxn]
    /\ req' = [req EXCEPT ![c] = NoReq]
    /\ pc' = [pc EXCEPT ![c] = "idle"]
    /\ Unchanged_auth
    /\ UNCHANGED <<products, updates, movements, applied>>

\* Mutant of movement_logged: the movement is written over the last entry of
\* the log
movement_logged_OverwritesLast(c) ==
    /\ Ready
    /\ pc[c] = "append"
    /\ movements' =
          LET entry == [id |-> IF movements = <<>> THEN 1 ELSE Len(movements), tx |-> req[c].tx,
                        data |-> [req[c].movement_record EXCEPT
                                     !["createdAt"] = ServerTime(DOMAIN movements)]]
          IN  IF movements = <<>> THEN <<entry>>
              ELSE [movements EXCEPT ![Len(movements)] = entry]
    /\ resp' = Response(c, "movement", 201, "", [movementId |-> IF movements = <<>> THEN 1 ELSE Len(movements)])
    /\ req' = [req EXCEPT ![c] = NoReq]
    /\ pc' = [pc EXCEPT ![c] = "idle"]
    /\ UNCHANGED <<idpUsers, userDocs, session, products, updates, txn, applied>>

\* db.collection('movements').add(movement_record), then 201
movement_logged(c) ==
    /\ Ready
    /\ pc[c] = "append"
    /\ movements' = Append(movements,
                           [id |-> Len(movements) + 1,
                            tx |-> req[c].tx,
                            data |-> [req[c].movement_record EXCEPT
                                         !["createdAt"] = ServerTime(DOMAIN movements)]])
    /\ resp' = Response(c, "movement", 201, "", [movementId |-> Len(movements) + 1])
    /\ req' = [req EXCEPT ![c] = NoReq]
    /\ pc' = [pc EXCEPT ![c] = "idle"]
    /\ Unchanged_auth
    /\ UNCHANGED <<products, updates, txn, applied>>

\* Mutant of movement_log_fails: the handler removes the product document
\* when the add raises
movement_log_fails_UndoesStock(c) ==
    /\ Ready
    /\ pc[c] = "append"
    /\ resp' = Response(c, "movement", 500, "An internal server error occurred.",
                             EmptyDict)
    /\ products' = [products EXCEPT ![ProductOf(c)] = NoDoc]
    /\ req' = [req EXCEPT ![c] = NoReq]
    /\ pc' = [pc EXCEPT ![c] = "idle"]
    /\ UNCHANGED <<idpUsers, userDocs, session, updates, movements, txn, applied>>

\* The add raises: 500, and nothing undoes the committed transaction
movement_log_fails(c) ==
    /\ Ready
    /\ pc[c] = "append"
    /\ resp' = Response(c, "movement", 500, "An internal server error occurred.",
                             EmptyDict)
    /\ req' = [req EXCEPT ![c] = NoReq]
    /\ pc' = [pc EXCEPT ![c] = "idle"]
    /\ Unchanged_auth
    /\ UNCHANGED <<products, updates, movements, txn, applied>>

\* -------------------------------------------------------- GET /dashboard-data

\* products_ref.stream(): the documents of the collection, in the order of
\* their ids
ProductOrder == <<"olio", "vino">>

\* The dict `item` of the loop for one document
DashboardItem(id, product_data) ==
    [productName   |-> Get(product_data, "productName", id),
     quantity      |-> Get(product_data, "quantity", FNone),
     nearestExpiry |-> Get(product_data, "nearestExpiry", None),
     lastUpdatedBy |-> Get(product_data, "lastUpdatedBy", None)]

\* The integrity check of the loop
DashboardKeeps(item) ==
    /\ item["productName"] # None
    /\ item["quantity"] # FNone
    /\ item["lastUpdatedBy"] # None

\* dashboard_items after the documents from the i-th on
RECURSIVE DashboardItems(_)
DashboardItems(i) ==
    IF i > Len(ProductOrder) THEN <<>>
    ELSE LET id == ProductOrder[i]
             item == DashboardItem(id, products[id])
         IN  IF products[id].exists /\ DashboardKeeps(item)
             THEN <<item>> \o DashboardItems(i + 1)
             ELSE DashboardItems(i + 1)

\* Mutant of get_dashboard_data: the view is not wrapped in login_required
get_dashboard_data_NoLoginCheck(c) ==
    /\ Ready
    /\ resp' = Response(c, "dashboard", 200, "", [items |-> DashboardItems(1)])
    /\ UNCHANGED <<idpUsers, userDocs, session, products, updates, movements,
                   pc, req, txn, applied>>

\* The JSON array of the response is the field items of the body
get_dashboard_data(c) ==
    /\ Ready
    /\ resp' = IF ~LoggedIn(c)
               THEN Response(c, "dashboard", 401, "Authentication required", EmptyDict)
               ELSE Response(c, "dashboard", 200, "", [items |-> DashboardItems(1)])
    /\ UNCHANGED <<idpUsers, userDocs, session, products, updates, movements,
                   pc, req, txn, applied>>

\* ------------------------------------------------------- GET /products/<name>

\* The name of the URL variable of the route, and of the parameter of the view
RouteVariable == "product_name"
ViewParameter == "product_name_from_url"

\* Flask calls the view with the URL variable as a keyword argument
ViewAcceptsRouteVariable == RouteVariable = ViewParameter

\* timestamp.isoformat(): the text of a timestamp of the store
IsoFormat(ts) == [iso |-> ts]

\* The movements of the query: those of the product, latest date first
RECURSIVE MovementsOf(_, _)
MovementsOf(log, name) ==
    IF log = <<>> THEN <<>>
    ELSE LET rest == MovementsOf(Tail(log), name)
             m == [f \in DOMAIN Head(log).data \cup {"movementId"} |->
                      IF f = "movementId" THEN Head(log).id
                      ELSE IF f = "createdAt" THEN IsoFormat(Head(log).data[f])
                      ELSE Head(log).data[f]]
         IN  IF Head(log).data["productName"] = name THEN <<m>> \o rest ELSE rest

RECURSIVE InsertByDate(_, _)
InsertByDate(m, sorted) ==
    IF sorted = <<>> THEN <<m>>
    ELSE IF Strptime(m["date"]) >= Strptime(Head(sorted)["date"]) THEN <<m>> \o sorted
    ELSE <<Head(sorted)>> \o InsertByDate(m, Tail(sorted))

RECURSIVE SortByDateDesc(_)
SortByDateDesc(ms) ==
    IF ms = <<>> THEN <<>> ELSE InsertByDate(Head(ms), SortByDateDesc(Tail(ms)))

\* isinstance(x, (int, float)) for a value that is a float or None
IsNumber(x) == x.k # "none"

\* The condition under which a movement of the loop adds to the two totals
AddsToTotals(movement) ==
    /\ movement["movementType"] = "carico"
    /\ IsNumber(movement["unitPrice"]) /\ FGt(movement["unitPrice"], Fin(0))
    /\ IsNumber(movement["quantity"]) /\ FGt(movement["quantity"], Fin(0))

\* total_value_of_loads and total_quantity_of_loads after the first n
\* movements of the loop
RECURSIVE TotalValueOfLoads(_, _)
TotalValueOfLoads(ms, n) ==
    IF n = 0 THEN Fin(0)
    ELSE IF AddsToTotals(ms[n])
         THEN FAdd(TotalValueOfLoads(ms, n - 1),
                   FMul(ms[n]["unitPrice"], ms[n]["quantity"]))
         ELSE TotalValueOfLoads(ms, n - 1)

RECURSIVE TotalQuantityOfLoads(_, _)
TotalQuantityOfLoads(ms, n) ==
    IF n = 0 THEN Fin(0)
    ELSE IF AddsToTotals(ms[n])
         THEN FAdd(TotalQuantityOfLoads(ms, n - 1), ms[n]["quantity"])
         ELSE TotalQuantityOfLoads(ms, n - 1)

\* A float with two decimals, as the number of its hundredths
Hundredths(n) == [k |-> "fin/100", v |-> n]

\* The integer nearest to n / d for n >= 0 and d > 0, the even one of two
\* that are equally near
RoundHalfEven(n, d) ==
    LET q == n \div d
        r == n % d
    IN  IF 2 * r < d THEN q
        ELSE IF 2 * r > d THEN q + 1
        ELSE IF q % 2 = 0 THEN q ELSE q + 1

\* round(a / b, 2) for floats a >= 0 and b > 0
RoundedQuotient(a, b) ==
    CASE a.k = "nan" \/ b.k = "nan" -> NaN
      [] a.k = "fin" /\ b.k = "fin" -> Hundredths(RoundHalfEven(100 * a.v, b.v))
      [] a.k = "fin"                -> Hundredths(0)
      [] b.k = "fin"                -> a
      [] OTHER                      -> NaN

\* round(average_unit_price, 2)
AverageUnitPrice(ms) ==
    IF FGt(TotalQuantityOfLoads(ms, Len(ms)), Fin(0))
    THEN RoundedQuotient(TotalValueOfLoads(ms, Len(ms)), TotalQuantityOfLoads(ms, Len(ms)))
    ELSE Hundredths(0)

\* expiration_dates_set
ExpirationDates(ms) ==
    {Strip(ms[i]["expiryDate"]) : i \in {j \in DOMAIN ms :
        /\ ms[j]["movementType"] = "carico"
        /\ TruthyStr(ms[j]["expiryDate"])
        /\ Strip(ms[j]["expiryDate"]) # ""}}

\* The place of a date string in the order of Python strings
StrRank(s) ==
    CASE s = "2025-04-01" -> 1
      [] s = "2025-05-01" -> 2
      [] s = "2025-06-01" -> 3
      [] s = "2025-5-1"   -> 4
      [] OTHER            -> 5

\* sorted(list(expiration_dates_set))
RECURSIVE SortedStrings(_)
SortedStrings(set) ==
    IF set = {} THEN <<>>
    ELSE LET least == CHOOSE x \in set : \A y \in set : StrRank(x) <= StrRank(y)
         IN  <<least>> \o SortedStrings(set \ {least})

\* The body of get_product_detail: the response for a name
ProductDetail(c, name_from_url) ==
    LET product_name_lookup == Strip(name_from_url)
        product_snapshot == IF product_name_lookup \in ProductNames
                            THEN products[product_name_lookup] ELSE NoDoc
        stored == Get(product_snapshot, "quantity", Fin(0))
        movements_list == SortByDateDesc(MovementsOf(movements, product_name_lookup))
    IN  IF product_name_lookup = ""
        THEN Response(c, "detail", 400, "Product name parameter is required", EmptyDict)
        ELSE IF ~product_snapshot.exists
        THEN Response(c, "detail", 404, "Product not found.", EmptyDict)
        ELSE Response(c, "detail", 200, "",
                 [productName |-> product_name_lookup,
                  totalQuantityInStock |-> IF IsNumber(stored) THEN stored ELSE Fin(0),
                  averageUnitPrice |-> AverageUnitPrice(movements_list),
                  expirationDateHistory |-> SortedStrings(ExpirationDates(movements_list)),
                  movements |-> movements_list])

get_product_detail(c, name) ==
    /\ Ready
    /\ resp' = [(IF ~LoggedIn(c)
                   THEN Response(c, "detail", 401, "Authentication required", EmptyDict)
                   ELSE IF ~ViewAcceptsRouteVariable
                   THEN Response(c, "detail", 500,
                                 "An unexpected internal server error occurred.", EmptyDict)
                   ELSE ProductDetail(c, name))
                EXCEPT !.path = name]
    /\ Unchanged_auth
    /\ UNCHANGED <<products, updates, movements, pc, req, txn, applied>>

\* ------------------------------------------------------------ specification

\* The steps of the write path over the inputs the clients send: the register
\* bodies, per client the ID tokens, the movement payloads.
WriteOver(regs, toks, payloads) ==
    \/ \E c \in Clients, in \in regs : register(c, in)
    \/ \E c \in Clients : \E tok \in toks[c] : session_login(c, tok)
    \/ \E c \in Clients : movement_unauthenticated(c)
    \/ \E c \in Clients, data \in payloads : movement_rejected(c, data)
    \/ \E c \in Clients, data \in payloads : movement_validated(c, data)
    \/ \E c \in Clients : transaction_raises(c)
    \/ \E c \in Clients : transaction_stages(c)
    \/ \E c \in Clients : transaction_commits(c)
    \/ \E c \in Clients : transaction_retries(c)
    \/ \E c \in Clients, status \in {400, 500} : transaction_gives_up(c, status)
    \/ \E c \in Clients : movement_logged(c)
    \/ \E c \in Clients : movement_log_fails(c)
    \/ response_sent

\* The requests that write nothing to the store
ReadOver(names) ==
    \/ \E c \in Clients : logout(c)
    \/ \E c \in Clients : auth_status(c)
    \/ \E c \in Clients : get_dashboard_data(c)
    \/ \E c \in Clients, name \in names : get_product_detail(c, name)

\* Every operation of the application; each client holds the token of one
\* account.
AllRegs == {[email |-> e, password |-> "segreto1"] : e \in Emails}

AllToks == [c \in Clients |-> IF c = "c1" THEN {JStr("tokAnna")} ELSE {JStr("tokBruno")}]

AllPayloads ==
    {Payload("carico", "olio", JNum(2), JStr("2025-06-01")),
     Payload("carico", "olio", JNum(1), JStr("2025-05-01")),
     Payload("scarico", "olio", JNum(2), JNull),
     Payload("scarico", "vino", JNum(1), JNull),
     Payload("carico", "olio", JNum(0), JNull)}

Next ==
    \/ WriteOver(AllRegs, AllToks, AllPayloads)
    \/ ReadOver({"olio", "vino"})

Spec == Init /\ [][Next]_vars

\* The write path alone, both clients in the session of one account, over
\* the quantities a payload can carry.
StockRegs == {[email |-> "anna@casale.it", password |-> "segreto1"]}

StockToks == [c \in Clients |-> {JStr("tokAnna")}]

StockPayloads ==
    {Payload("carico", "olio", JNum(1), JNull),
     Payload("carico", " olio ", JStr("2"), JNull),
     Payload("scarico", "olio", JNum(1), JNull),
     Payload("scarico", "olio", JNum(2), JNull),
     Payload("carico", "olio", JStr("inf"), JNull),
     Payload("carico", "olio", JStr("nan"), JNull),
     Payload("scarico", "olio", JStr("inf"), JNull),
     Payload("carico", "vino", JNum(1), JNull),
     Payload("carico", "olio", JNum(0 - 1), JNull)}

NextStock == WriteOver(StockRegs, StockToks, StockPayloads)

SpecStock == Init /\ [][NextStock]_vars

\* The write path alone over the expiry dates a load can carry.
ExpiryPayloads ==
    {Payload("carico", "olio", JNum(1), e) :
        e \in {JNull, JStr(""), JStr("2025-06-01"), JStr("2025-05-01"), JStr("2025-5-1")}}
    \cup {Payload("scarico", "olio", JNum(1), JStr("2025-04-01")),
          Payload("carico", "olio", JNum(1), JStr("2025-13-40"))}

NextExpiry == WriteOver(StockRegs, StockToks, ExpiryPayloads)

SpecExpiry == Init /\ [][NextExpiry]_vars

\* The write path and the product detail over the unit prices a payload can
\* carry.
Priced(data, unitPrice) == [data EXCEPT !["unitPrice"] = unitPrice]

PricePayloads ==
    {Priced(Payload("carico", "olio", JNum(2), JNull), JNum(2)),
     Priced(Payload("carico", "olio", JNum(1), JNull), JNum(1)),
     Payload("carico", "olio", JNum(1), JNull),
     Payload("scarico", "olio", JNum(1), JNull)}
    \cup {Priced(Payload("carico", "olio", JNum(1), JNull), price) :
            price \in {JNum(0), JStr("0"), JNum(0 - 1), JStr("abc"), JOther}}

NextPrice ==
    \/ WriteOver(StockRegs, StockToks, PricePayloads)
    \/ \E c \in Clients : get_product_detail(c, "olio")

SpecPrice == Init /\ [][NextPrice]_vars

\* The write path over the payloads the validator is to turn down, and one
\* load sent with its quantity as a number and as a string.
Dated(data, date) == [data EXCEPT !["date"] = date]

ValidatePayloads ==
    {Payload("carico", "olio", JNum(2), JNull),
     Payload("carico", "olio", JStr("2"), JNull),
     Payload("scarico", "olio", JNum(1), JNull),
     Payload("carico", "olio", JNum(0), JNull),
     Payload("carico", "olio", JNum(0 - 1), JNull),
     Payload("scarico", "olio", JStr("0"), JNull),
     Payload("foo", "olio", JNum(1), JNull),
     Dated(Payload("carico", "olio", JNum(1), JNull), JStr("2025-13-40")),
     NullPayload}

NextValidate == WriteOver(StockRegs, StockToks, ValidatePayloads)

SpecValidate == Init /\ [][NextValidate]_vars

\* Registration, login, logout and status over the bodies and tokens a
\* client can send: the token of each account, one that is expired, one of a
\* disabled account, none, an empty one and one that is no string.
AuthRegs ==
    AllRegs \cup {[email |-> "anna@casale.it", password |-> "abc"],
                  [email |-> "anna", password |-> "segreto1"],
                  [email |-> "", password |-> "segreto1"]}

AuthToks ==
    [c \in Clients |->
        {JStr("tokAnna"), JStr("tokBruno"), JStr("tokExpired"), JStr("tokDisabled"),
         JNull, JStr(""), JNum(1)}]

NextAuth ==
    \/ \E c \in Clients, in \in AuthRegs : register(c, in)
    \/ \E c \in Clients : \E tok \in AuthToks[c] : session_login(c, tok)
    \/ \E c \in Clients : logout(c)
    \/ \E c \in Clients : auth_status(c)
    \/ response_sent

SpecAuth == Init /\ [][NextAuth]_vars

\* The store as the application may find it: the collection 'products' holds
\* documents that another writer of the store left, some without the fields
\* the application writes, one with a nearestExpiry that is no date.
FullDoc(p) ==
    [exists |-> TRUE, productName |-> p, quantity |-> Fin(1),
     lastUpdatedBy |-> "uidBruno", createdAt |-> 1]

Without(doc, field) == [f \in DOMAIN doc \ {field} |-> doc[f]]

With(doc, field, value) ==
    [f \in DOMAIN doc \cup {field} |-> IF f = field THEN value ELSE doc[f]]

FoundDocs(p) ==
    {NoDoc, FullDoc(p),
     Without(FullDoc(p), "productName"),
     Without(FullDoc(p), "quantity"),
     Without(FullDoc(p), "lastUpdatedBy"),
     With(FullDoc(p), "lastUpdatedBy", None),
     With(FullDoc(p), "nearestExpiry", "2025-06-01"),
     With(FullDoc(p), "nearestExpiry", "n/a"),
     With(FullDoc(p), "nearestExpiry", "")}

InitFound ==
    /\ idpUsers = {}
    /\ userDocs = EmptyDict
    /\ session = [c \in Clients |-> EmptyDict]
    /\ products \in {[p \in ProductNames |-> IF p = "olio" THEN d ELSE e] :
                        d \in FoundDocs("olio"), e \in {NoDoc, FullDoc("vino")}}
    /\ updates = [p \in ProductNames |-> 0]
    /\ movements = <<>>
    /\ pc = [c \in Clients |-> "idle"]
    /\ req = [c \in Clients |-> NoReq]
    /\ txn = [c \in Clients |-> NoTxn]
    /\ resp = NoResponse
    /\ applied = <<>>

FoundPayloads ==
    {Payload("carico", "olio", JNum(1), JStr("2025-05-01")),
     Payload("scarico", "olio", JNum(1), JNull),
     Payload("carico", "olio", JNum(0), JNull)}

NextFound ==
    \/ WriteOver(StockRegs, StockToks, FoundPayloads)
    \/ \E c \in Clients : get_dashboard_data(c)

SpecFound == InitFound /\ [][NextFound]_vars

\* ------------------------------------------------------ reading the history

\* The stored quantity of a product
Qty(p) == Get(products[p], "quantity", Fin(0))

\* The movement of a request under way
Rec(c) == req[c].movement_record

\* The committed transactions of a product, as indexes into applied
AppliedTo(p) == {i \in DOMAIN applied : applied[i].movement_record["productName"] = p}

\* The sum of the quantities of the first n committed movements of a type on a
\* product, added in commit order
RECURSIVE SumQty(_, _, _)
SumQty(n, p, type) ==
    IF n = 0 THEN Fin(0)
    ELSE IF n \in AppliedTo(p) /\ applied[n].movement_record["movementType"] = type
         THEN FAdd(SumQty(n - 1, p, type), applied[n].movement_record["quantity"])
         ELSE SumQty(n - 1, p, type)

\* The document of a product after the first n commits
RECURSIVE DocAfter(_, _)
DocAfter(n, p) ==
    IF n = 0 THEN NoDoc
    ELSE IF n \in AppliedTo(p) THEN applied[n].doc ELSE DocAfter(n - 1, p)

\* The document the transactional function builds when the first n committed
\* movements of a product are applied one at a time, each to the result of
\* the one before; NoDoc for one that raises
RECURSIVE Serial(_, _)
Serial(n, p) ==
    IF n = 0 THEN NoDoc
    ELSE IF n \notin AppliedTo(p) THEN Serial(n - 1, p)
    ELSE LET out == update_product_stock_transactional(
                        Serial(n - 1, p), applied[n].movement_record, applied[n].user_id)
         IN  IF out.error # "" THEN NoDoc
             ELSE ApplyWrite(Serial(n - 1, p), out.payload, applied[n].ts)

Max(a, b) == IF a >= b THEN a ELSE b

\* -------------------------------------------------------------------- claims

\* C1: in every reachable state the stored quantity of every product is
\* greater than or equal to 0.
C1_QuantityNeverNegative ==
    \A p \in ProductNames : products[p].exists => FGe(Qty(p), Fin(0))

\* C2: the stored quantity of a product equals the sum of the quantities of
\* the committed loads minus the sum of the quantities of the committed
\* unloads (the float that sum is: inf and nan included); a product without a
\* document has no committed movement.
C2_QuantityIsLoadsMinusUnloads ==
    \A p \in ProductNames :
        IF products[p].exists
        THEN Qty(p) = FSub(SumQty(Len(applied), p, "carico"),
                           SumQty(Len(applied), p, "scarico"))
        ELSE AppliedTo(p) = {}

\* C2 witness: three movements on one product are committed, loads and an
\* unload among them, and the quantity left is 2.
C2_Witness ==
    /\ Len(applied) = 3
    /\ AppliedTo("olio") = {1, 2, 3}
    /\ \E i \in 1..3 : applied[i].movement_record["movementType"] = "scarico"
    /\ Qty("olio") = Fin(2)

\* C3: an unload on an existing product is answered 400 'insufficient stock'
\* exactly when the requested quantity is greater than the quantity on hand,
\* the failure leaves the product document as it was, and an unload of exactly
\* the quantity on hand leaves 0.
C3_UnloadFailsExactlyWhenShort ==
    [][\A c \in Clients :
        /\ ( /\ pc[c] = "run" /\ pc'[c] # "run"
             /\ Rec(c)["movementType"] = "scarico"
             /\ products[ProductOf(c)].exists )
           => /\ ( /\ resp'.client = c /\ resp'.status = 400
                   /\ resp'.error = "Insufficient stock." )
                 <=> FGt(Rec(c)["quantity"], Qty(ProductOf(c)))
              /\ products' = products
        /\ ( /\ pc[c] = "commit" /\ pc'[c] = "append"
             /\ Rec(c)["movementType"] = "scarico"
             /\ FEq(Rec(c)["quantity"], Qty(ProductOf(c))) )
           => Qty(ProductOf(c))' = Fin(0)
      ]_vars

\* C4: of two unloads of one product that were under way at the same time,
\* with no load of the product committed from then until the later of the two
\* committed, both are committed only if their combined quantity does not
\* exceed the stock the product had when both were under way.
C4_ConcurrentUnloadsWithinStock ==
    \A i, j \in DOMAIN applied :
        ( /\ i < j
          /\ applied[j].seen < i
          /\ applied[i].movement_record["movementType"] = "scarico"
          /\ applied[j].movement_record["movementType"] = "scarico"
          /\ applied[i].movement_record["productName"]
                = applied[j].movement_record["productName"]
          /\ \A k \in (Max(applied[i].seen, applied[j].seen) + 1)..j :
                ~ ( /\ applied[k].movement_record["movementType"] = "carico"
                    /\ applied[k].movement_record["productName"]
                          = applied[i].movement_record["productName"] ) )
        => ~FGt(FAdd(applied[i].movement_record["quantity"],
                     applied[j].movement_record["quantity"]),
                Get(DocAfter(Max(applied[i].seen, applied[j].seen),
                             applied[i].movement_record["productName"]),
                    "quantity", Fin(0)))

\* C4 witness: an unload was run again after a refused commit, the unload of
\* another request was committed while it was under way, the two together ask
\* for more than the stock there was, and the stock left does not cover it.
C4_Witness ==
    \E c \in Clients :
        /\ pc[c] = "run" /\ req[c].attempt = 2
        /\ Rec(c)["movementType"] = "scarico"
        /\ Len(applied) > req[c].seen
        /\ LET last == applied[Len(applied)]
           IN  /\ last.movement_record["movementType"] = "scarico"
               /\ last.movement_record["productName"] = ProductOf(c)
               /\ last.seen <= req[c].seen
               /\ FGt(FAdd(Rec(c)["quantity"], last.movement_record["quantity"]),
                      Get(DocAfter(req[c].seen, ProductOf(c)), "quantity", Fin(0)))
               /\ Get(DocAfter(req[c].seen, ProductOf(c)), "quantity", Fin(0)).k = "fin"
        /\ FLt(Qty(ProductOf(c)), Rec(c)["quantity"])

\* C5: every product document is the one obtained by applying the committed
\* movements one at a time in commit order, each exactly once; the store has
\* written a document once per committed movement; and a step that answers a
\* movement request with an error writes nothing.
C5_SerializableAllOrNothing ==
    /\ [](\A p \in ProductNames :
            /\ products[p] = Serial(Len(applied), p)
            /\ updates[p] = Cardinality(AppliedTo(p)))
    /\ [][(resp'.op = "movement" /\ resp'.status # 201 /\ resp' # resp)
            => (products' = products /\ updates' = updates)]_vars

\* C5 witness: a transaction that was run again after a refused commit is
\* committed on top of the movement that got in first.
C5_Witness ==
    \E c \in Clients :
        /\ pc[c] = "append" /\ req[c].attempt = 2
        /\ req[c].tx >= 2
        /\ applied[req[c].tx - 1].movement_record["productName"] = ProductOf(c)
        /\ applied[req[c].tx - 1].seen <= req[c].seen
        /\ Qty(ProductOf(c)) = Fin(3)

\* The committed loads of a product that carried an expiry date
LoadsWithExpiry(p) ==
    {i \in AppliedTo(p) :
        /\ applied[i].movement_record["movementType"] = "carico"
        /\ TruthyStr(applied[i].movement_record["expiryDate"])}

HasExpiry(doc) == "nearestExpiry" \in DOMAIN doc

\* C6: a committed load with an expiry date sets nearestExpiry to it if the
\* document had none or the date is strictly earlier than the stored one, and
\* leaves nearestExpiry as it was otherwise; so nearestExpiry is the expiry
\* date of a committed load, no committed load has an earlier one, and it is
\* absent exactly when no committed load carried one.
C6_NearestExpiryIsEarliest ==
    /\ [](\A p \in ProductNames :
            IF LoadsWithExpiry(p) = {}
            THEN ~HasExpiry(products[p])
            ELSE /\ HasExpiry(products[p])
                 /\ \E i \in LoadsWithExpiry(p) :
                       applied[i].movement_record["expiryDate"] = products[p]["nearestExpiry"]
                 /\ \A i \in LoadsWithExpiry(p) :
                       Strptime(products[p]["nearestExpiry"])
                          <= Strptime(applied[i].movement_record["expiryDate"]))
    /\ [][\A c \in Clients :
            ( /\ pc[c] = "commit" /\ pc'[c] = "append"
              /\ Rec(c)["movementType"] = "carico"
              /\ TruthyStr(Rec(c)["expiryDate"]) )
            => LET old == products[ProductOf(c)]
                   new == products'[ProductOf(c)]
               IN  IF ~HasExpiry(old)
                      \/ Strptime(Rec(c)["expiryDate"]) < Strptime(old["nearestExpiry"])
                   THEN new["nearestExpiry"] = Rec(c)["expiryDate"]
                   ELSE new["nearestExpiry"] = old["nearestExpiry"]
         ]_vars

\* C6 witness: loads with expiry 2025-05-01 and then 2025-06-01 are
\* committed, and nearestExpiry is 2025-05-01.
C6_Witness ==
    /\ Len(applied) >= 2
    /\ applied[1].movement_record["expiryDate"] = "2025-05-01"
    /\ applied[2].movement_record["movementType"] = "carico"
    /\ applied[2].movement_record["expiryDate"] = "2025-06-01"
    /\ products["olio"]["nearestExpiry"] = "2025-05-01"

\* C7: across every step, a nearestExpiry that is set stays set, and it keeps
\* its value or becomes a strictly earlier date.
C7_NearestExpiryOnlyMovesEarlier ==
    [][\A p \in ProductNames :
          HasExpiry(products[p])
          => /\ HasExpiry(products'[p])
             /\ \/ products'[p]["nearestExpiry"] = products[p]["nearestExpiry"]
                \/ Strptime(products'[p]["nearestExpiry"])
                      < Strptime(products[p]["nearestExpiry"])
      ]_vars

\* C7 witness: nearestExpiry was 2025-06-01 after the first load and is
\* 2025-05-01 after the second.
C7_Witness ==
    /\ Len(applied) >= 2
    /\ applied[1].doc["nearestExpiry"] = "2025-06-01"
    /\ AppliedTo("olio") = DOMAIN applied
    /\ products["olio"]["nearestExpiry"] = "2025-05-01"

\* C8: an unload of a product that has no document is answered 400 'product
\* not found', and the step creates no product document and appends nothing
\* to the log; the request ends there.
C8_UnloadOfAbsentProduct ==
    [][\A c \in Clients :
          ( /\ pc[c] = "run" /\ pc'[c] # "run"
            /\ Rec(c)["movementType"] = "scarico"
            /\ ~products[ProductOf(c)].exists )
          => /\ resp'.client = c
             /\ resp'.op = "movement"
             /\ resp'.status = 400
             /\ resp'.error = "Product not found for discharge."
             /\ products' = products
             /\ movements' = movements
             /\ pc'[c] = "idle"
      ]_vars

\* C8 witness: a request is answered 'product not found' and the product it
\* asked for has no document.
C8_Witness ==
    /\ resp.error = "Product not found for discharge."
    /\ resp.status = 400
    /\ ~products["vino"].exists
    /\ movements = <<>>

\* C9: every log entry is the movement of a stock transaction that committed
\* before it was appended, no committed transaction is logged twice; and a
\* step appends to the log exactly when it answers a movement request with
\* 201, one entry, leaving the entries before it as they were.
C9_LogOnlyAfterCommit ==
    /\ [](/\ \A i \in DOMAIN movements :
                /\ movements[i].tx \in DOMAIN applied
                /\ [movements[i].data EXCEPT !["createdAt"] = SERVER_TIMESTAMP]
                      = applied[movements[i].tx].movement_record
          /\ \A i, j \in DOMAIN movements :
                movements[i].tx = movements[j].tx => i = j)
    /\ [][IF resp'.op = "movement" /\ resp'.status = 201 /\ resp' # resp
          THEN /\ Len(movements') = Len(movements) + 1
               /\ SubSeq(movements', 1, Len(movements)) = movements
          ELSE movements' = movements]_vars

\* C9 witness: two movements are logged in the order opposite to the one
\* their transactions committed in.
C9_Witness ==
    /\ Len(movements) = 2
    /\ movements[1].tx = 2
    /\ movements[2].tx = 1

\* C10: the product detail of a logged-in client answers 404 for a product
\* without a document, and after one load of a new product that was committed
\* and logged it answers 200 with totalQuantityInStock equal to the loaded
\* quantity and one entry in movements.
C10_DetailRoundTrip ==
    (resp.op = "detail" /\ resp.client \in Clients /\ Strip(resp.path) \in ProductNames)
    => (LoggedIn(resp.client)
        => IF ~products[Strip(resp.path)].exists
           THEN resp.status = 404
           ELSE ( /\ Cardinality(AppliedTo(Strip(resp.path))) = 1
                  /\ \E i \in DOMAIN movements :
                        movements[i].data["productName"] = Strip(resp.path) )
                => /\ resp.status = 200
                   /\ resp.body["totalQuantityInStock"]
                         = applied[CHOOSE i \in AppliedTo(Strip(resp.path)) : TRUE]
                              .movement_record["quantity"]
                   /\ Len(resp.body["movements"]) = 1)

\* The product document has the fields the dashboard asks for
Complete(doc) ==
    /\ {"productName", "quantity", "lastUpdatedBy"} \subseteq DOMAIN doc
    /\ doc["productName"] # None
    /\ doc["quantity"] # FNone
    /\ doc["lastUpdatedBy"] # None

\* C11: a dashboard response has no entry for a product document in which
\* one of productName, quantity and lastUpdatedBy is missing, and for every
\* product document in which the three are present it has one entry with
\* productName, quantity, nearestExpiry (null if the document has none) and
\* lastUpdatedBy of the document.
C11_DashboardOmitsIncomplete ==
    (resp.op = "dashboard" /\ resp.status = 200)
    => \A p \in ProductNames :
          LET entries == {i \in DOMAIN resp.body["items"] :
                             resp.body["items"][i]["productName"] = p}
          IN  IF products[p].exists /\ Complete(products[p])
              THEN /\ Cardinality(entries) = 1
                   /\ \A i \in entries :
                         resp.body["items"][i]
                            = [productName   |-> products[p]["productName"],
                               quantity      |-> products[p]["quantity"],
                               nearestExpiry |-> Get(products[p], "nearestExpiry", None),
                               lastUpdatedBy |-> products[p]["lastUpdatedBy"]]
              ELSE entries = {}

\* The unit price of a payload is a number, sent as a number or as a string
PriceIsNumber(data) == ToFloat(data["unitPrice"]).k \in {"fin", "inf", "ninf", "nan"}

\* C12: a movement request that is valid but for its unitPrice is answered 400
\* only if the unitPrice is negative or not a number; with a unitPrice of 0
\* it is taken up, and its record has totalValue 0.
C12_ZeroUnitPriceAccepted ==
    /\ ( /\ resp.op = "movement" /\ resp.status = 400
         /\ DOMAIN resp.request # {}
         /\ ValidationError(Priced(resp.request, JNull)) = "" )
       => ( \/ ~PriceIsNumber(resp.request)
            \/ FLt(ToFloat(resp.request["unitPrice"]), Fin(0)) )
    /\ \A c \in Clients :
          ( /\ pc[c] # "idle"
            /\ PriceIsNumber(req[c].data)
            /\ ToFloat(req[c].data["unitPrice"]) = Fin(0) )
          => Rec(c)["totalValue"] = Fin(0)

\* A payload the validator is to turn down: quantity 0 or -1, a movementType
\* that is neither load nor unload, or a date that is no calendar date
Rejectable(data) ==
    \/ ToFloat(data["quantity"]) \in {Fin(0), Fin(0 - 1)}
    \/ data["movementType"].s \notin {"carico", "scarico"}
    \/ Strptime(data["date"].s) = 0

\* The payload with a quantity sent as a string replaced by the number it
\* spells
NumberForm(data) ==
    IF data["quantity"].t = "str" /\ ToFloat(data["quantity"]).k = "fin"
    THEN [data EXCEPT !["quantity"] = JNum(ToFloat(data["quantity"]).v)]
    ELSE data

\* C13: no request with quantity 0 or -1, a movementType other than load and
\* unload, or a date that is no calendar date is taken up, it is answered
\* 400; the step that turns a request down leaves the product documents and
\* the log as they were; and a request with the quantity as a string is not
\* turned down if it is valid with the quantity as a number, its record, the
\* document it commits and the entry it logs are those of the request with
\* the number.
C13_ValidatorRejectsWithoutEffect ==
    /\ [](/\ \A c \in Clients : pc[c] # "idle" => ~Rejectable(req[c].data)
          /\ (resp.op = "movement" /\ DOMAIN resp.request # {})
             => /\ resp.status = 400
                /\ ValidationError(NumberForm(resp.request)) # ""
          /\ \A c \in Clients :
                pc[c] # "idle"
                => Rec(c) = MovementRecord(NumberForm(req[c].data), req[c].user_id))
    /\ [][/\ (resp'.op = "movement" /\ DOMAIN resp'.request # {})
             => (products' = products /\ updates' = updates /\ movements' = movements
                 /\ pc' = pc /\ applied' = applied)
          /\ \A c \in Clients :
                LET record == MovementRecord(NumberForm(req[c].data), req[c].user_id)
                    p == record["productName"]
                IN  /\ (pc[c] = "commit" /\ pc'[c] = "append")
                       => products'[p]
                             = ApplyWrite(products[p],
                                  update_product_stock_transactional(
                                      products[p], record, req[c].user_id).payload,
                                  ServerTime(DOMAIN applied))
                    /\ (pc[c] = "append" /\ pc'[c] = "idle"
                        /\ Len(movements') > Len(movements))
                       => movements'[Len(movements')].data
                             = [record EXCEPT !["createdAt"] = ServerTime(DOMAIN movements)]
         ]_vars

\* C13 witness: a load sent with the quantity "2" is committed on top of the
\* same load sent with the quantity 2, and a request with quantity 0 of the
\* other client has just been answered 400.
C13_Witness ==
    /\ \E c \in Clients :
          /\ pc[c] = "append"
          /\ req[c].data["quantity"] = JStr("2")
    /\ Len(applied) = 2
    /\ applied[1].movement_record = applied[2].movement_record
    /\ Qty("olio") = Fin(4)
    /\ resp.op = "movement" /\ resp.status = 400
    /\ DOMAIN resp.request # {}
    /\ ToFloat(resp.request["quantity"]) = Fin(0)

\* The logged loads of a product with a unit price greater than 0, as indexes
\* into the log
PricedLoads(p) ==
    {i \in DOMAIN movements :
        /\ movements[i].data["productName"] = p
        /\ movements[i].data["movementType"] = "carico"
        /\ movements[i].data["unitPrice"] # FNone
        /\ FGt(movements[i].data["unitPrice"], Fin(0))}

\* The sum of unitPrice * quantity, and of quantity, over the priced loads of
\* a product among the first n entries of the log
RECURSIVE PricedValue(_, _)
PricedValue(n, p) ==
    IF n = 0 THEN Fin(0)
    ELSE IF n \in PricedLoads(p)
         THEN FAdd(FMul(movements[n].data["unitPrice"], movements[n].data["quantity"]),
                   PricedValue(n - 1, p))
         ELSE PricedValue(n - 1, p)

RECURSIVE PricedQuantity(_, _)
PricedQuantity(n, p) ==
    IF n = 0 THEN Fin(0)
    ELSE IF n \in PricedLoads(p)
         THEN FAdd(movements[n].data["quantity"], PricedQuantity(n - 1, p))
         ELSE PricedQuantity(n - 1, p)

\* C14: the product detail of a logged-in client for a product that has a
\* document answers 200, and its averageUnitPrice is, to two decimals, the
\* sum of unitPrice * quantity over the logged loads of the product with a
\* unit price greater than 0 divided by the sum of quantity over the same
\* loads, and 0 when there is no such load.
C14_WeightedAveragePrice ==
    ( /\ resp.op = "detail" /\ resp.client \in Clients
      /\ LoggedIn(resp.client)
      /\ Strip(resp.path) \in ProductNames
      /\ products[Strip(resp.path)].exists )
    => /\ resp.status = 200
       /\ resp.body["averageUnitPrice"]
             = IF PricedLoads(Strip(resp.path)) = {} THEN Hundredths(0)
               ELSE RoundedQuotient(PricedValue(Len(movements), Strip(resp.path)),
                                    PricedQuantity(Len(movements), Strip(resp.path)))

\* The sum of the quantities of the movements of a type on a product among
\* the first n entries of the log
RECURSIVE LoggedQty(_, _, _)
LoggedQty(n, p, type) ==
    IF n = 0 THEN Fin(0)
    ELSE IF /\ movements[n].data["productName"] = p
            /\ movements[n].data["movementType"] = type
         THEN FAdd(LoggedQty(n - 1, p, type), movements[n].data["quantity"])
         ELSE LoggedQty(n - 1, p, type)

\* No movement request is under way, and every committed stock transaction
\* has its entry in the log
Quiescent ==
    /\ \A c \in Clients : pc[c] = "idle"
    /\ \A i \in DOMAIN applied : \E j \in DOMAIN movements : movements[j].tx = i

\* C15: when no movement request is under way and every committed stock
\* transaction has been logged, the stored quantity of every product is the
\* sum of the quantities of its logged loads minus the sum of the quantities
\* of its logged unloads, and a product without a document has no log entry.
C15_QuantityDerivableFromLog ==
    Quiescent
    => \A p \in ProductNames :
          IF products[p].exists
          THEN Qty(p) = FSub(LoggedQty(Len(movements), p, "carico"),
                             LoggedQty(Len(movements), p, "scarico"))
          ELSE \A i \in DOMAIN movements : movements[i].data["productName"] # p

\* C15 witness: two loads and an unload of one product are committed and
\* logged, the log not in the order of the commits, and 2 are left.
C15_Witness ==
    /\ Quiescent
    /\ Len(movements) = 3
    /\ movements[1].tx # 1
    /\ \A i \in 1..3 : movements[i].data["productName"] = "olio"
    /\ \E i \in 1..3 : movements[i].data["movementType"] = "scarico"
    /\ Qty("olio") = Fin(2)

\* C16: a step that answers a client without a session on POST /movements,
\* GET /dashboard-data or GET /products/<name> answers 401 and leaves every
\* product document, the log and the write counts of the store as they were;
\* and no movement request of a client without a session is taken up.
C16_UnauthenticatedIsRefused ==
    [][\A c \in Clients :
          ( /\ ~LoggedIn(c)
            /\ pc[c] = "idle" )
          => /\ pc'[c] = "idle"
             /\ ( /\ resp' # resp
                  /\ resp'.client = c
                  /\ resp'.op \in {"movement", "dashboard", "detail"} )
                => /\ resp'.status = 401
                   /\ resp'.error = "Authentication required"
                   /\ products' = products
                   /\ movements' = movements
                   /\ updates' = updates
                   /\ applied' = applied
      ]_vars

\* C16 witness: the store holds a product and a log entry, and a client
\* without a session has just been answered 401 on the dashboard.
C16_Witness ==
    /\ resp.op = "dashboard"
    /\ resp.status = 401
    /\ ~LoggedIn(resp.client)
    /\ products["olio"].exists
    /\ Len(movements) >= 1

\* C17: when the request of a committed stock transaction ends without a log
\* entry, the step leaves the product documents as the commit left them and
\* writes nothing, the client is answered with a status other than 201 and
\* the request is over; and a committed transaction that has no log entry
\* and no request about to append it never gets one.
C17_LogFailureKeepsStock ==
    [][/\ \A c \in Clients :
            ( /\ pc[c] = "append" /\ pc'[c] = "idle"
              /\ movements' = movements )
            => /\ products' = products
               /\ updates' = updates
               /\ applied' = applied
               /\ resp'.client = c /\ resp'.op = "movement"
               /\ resp'.status # 201
               /\ req'[c] = NoReq
       /\ \A i \in DOMAIN applied :
            ( /\ \A j \in DOMAIN movements : movements[j].tx # i
              /\ \A c \in Clients : ~(pc[c] = "append" /\ req[c].tx = i) )
            => /\ \A j \in DOMAIN movements' : movements'[j].tx # i
               /\ \A c \in Clients : ~(pc'[c] = "append" /\ req'[c].tx = i)
      ]_vars

\* C17 witness: a load was committed, its log append failed with 500, no
\* request is under way, and the product holds 1 where the log holds nothing.
C17_Witness ==
    /\ \A c \in Clients : pc[c] = "idle"
    /\ resp.op = "movement" /\ resp.status = 500
    /\ Len(applied) = 1
    /\ movements = <<>>
    /\ Qty("olio") = Fin(1)
    /\ LoggedQty(Len(movements), "olio", "carico") = Fin(0)

\* C18: the commit of an unload leaves the product document with the fields
\* it had and changes none of them but quantity and lastUpdatedBy; and the
\* commit of a load on a document whose quantity is 0 and that carries a
\* nearestExpiry leaves that nearestExpiry, unless the load has an expiry
\* date that is earlier.
C18_UnloadKeepsOtherFields ==
    [][\A c \in Clients :
          (pc[c] = "commit" /\ pc'[c] = "append")
          => LET old == products[ProductOf(c)]
                 new == products'[ProductOf(c)]
             IN  /\ Rec(c)["movementType"] = "scarico"
                    => /\ DOMAIN new = DOMAIN old
                       /\ \A f \in DOMAIN old \ {"quantity", "lastUpdatedBy"} :
                             new[f] = old[f]
                 /\ ( /\ Rec(c)["movementType"] = "carico"
                      /\ old.exists /\ Get(old, "quantity", Fin(0)) = Fin(0)
                      /\ HasExpiry(old)
                      /\ ~ ( /\ TruthyStr(Rec(c)["expiryDate"])
                             /\ Strptime(Rec(c)["expiryDate"])
                                   < Strptime(old["nearestExpiry"]) ) )
                    => /\ HasExpiry(new)
                       /\ new["nearestExpiry"] = old["nearestExpiry"]
      ]_vars

\* C18 witness: a load with expiry 2025-06-01, an unload that leaves 0 and a
\* load without expiry date are committed, and nearestExpiry is 2025-06-01.
C18_Witness ==
    /\ Len(applied) = 3
    /\ applied[1].movement_record["expiryDate"] = "2025-06-01"
    /\ applied[2].movement_record["movementType"] = "scarico"
    /\ applied[2].doc["quantity"] = Fin(0)
    /\ applied[2].doc["nearestExpiry"] = "2025-06-01"
    /\ applied[2].doc["createdAt"] = applied[1].doc["createdAt"]
    /\ applied[3].movement_record["movementType"] = "carico"
    /\ applied[3].movement_record["expiryDate"] = None
    /\ products["olio"]["nearestExpiry"] = "2025-06-01"
    /\ Qty("olio") = Fin(1)

\* The stored nearestExpiry of the document is a non-empty string that is no
\* date
MalformedExpiry(doc) ==
    /\ doc.exists
    /\ HasExpiry(doc)
    /\ TruthyStr(doc["nearestExpiry"])
    /\ Strptime(doc["nearestExpiry"]) = 0

\* C19: a load with a valid expiry date on a product whose stored
\* nearestExpiry is present but no date does not fail: the function does not
\* raise, and its commit adds the quantity, sets lastUpdatedBy to the user of
\* the request and leaves nearestExpiry as it was stored.
C19_MalformedStoredExpiryKept ==
    [][\A c \in Clients :
          ( /\ pc[c] \in {"run", "commit"}
            /\ Rec(c)["movementType"] = "carico"
            /\ TruthyStr(Rec(c)["expiryDate"])
            /\ Strptime(Rec(c)["expiryDate"]) # 0
            /\ MalformedExpiry(products[ProductOf(c)]) )
          => LET old == products[ProductOf(c)]
                 new == products'[ProductOf(c)]
             IN  /\ pc[c] = "run" => pc'[c] \in {"run", "commit"}
                 /\ (pc[c] = "commit" /\ pc'[c] = "append")
                    => /\ new["quantity"]
                             = FAdd(Get(old, "quantity", Fin(0)), Rec(c)["quantity"])
                       /\ new["lastUpdatedBy"] = req[c].user_id
                       /\ new["productName"] = ProductOf(c)
                       /\ new["nearestExpiry"] = old["nearestExpiry"]
      ]_vars

\* C19 witness: the stored nearestExpiry is no date, a load with expiry
\* 2025-05-01 by another user is committed on the stored quantity of 1, and
\* the document holds 2, the user of the load and the nearestExpiry it had.
C19_Witness ==
    /\ Len(applied) = 1
    /\ applied[1].movement_record["movementType"] = "carico"
    /\ applied[1].movement_record["expiryDate"] = "2025-05-01"
    /\ products["olio"]["nearestExpiry"] = "n/a"
    /\ Qty("olio") = Fin(2)
    /\ products["olio"]["lastUpdatedBy"] = "uidAnna"

\* The last committed transaction of a product, as an index into applied
LastApplied(p) == CHOOSE i \in AppliedTo(p) : \A j \in AppliedTo(p) : j <= i

\* C20: the lastUpdatedBy of every product document is the user of the
\* movement committed last on the product; a movement request is taken up
\* with the user id of the session it came in; the commit of a load or an
\* unload sets lastUpdatedBy to the user id of its request; and a step that
\* answers a movement request with anything but 201 leaves every product
\* document as it was.
C20_LastUpdatedByIsLastCommitter ==
    /\ [](\A p \in ProductNames :
            products[p].exists
            => /\ AppliedTo(p) # {}
               /\ products[p]["lastUpdatedBy"] = applied[LastApplied(p)].user_id
               /\ products[p]["lastUpdatedBy"] \in Uids)
    /\ [][/\ \A c \in Clients :
               /\ (pc[c] = "idle" /\ pc'[c] = "run")
                  => /\ LoggedIn(c)
                     /\ req'[c].user_id = session[c]["user_id"]
               /\ (pc[c] = "commit" /\ pc'[c] = "append")
                  => /\ products'[ProductOf(c)]["lastUpdatedBy"] = req[c].user_id
                     /\ applied'[Len(applied')].user_id = req[c].user_id
          /\ (resp' # resp /\ resp'.op = "movement" /\ resp'.status # 201)
             => products' = products
         ]_vars

\* C20 witness: a load of one user and then an unload of another are
\* committed on a product, a further unload has just failed for want of
\* stock, and lastUpdatedBy is the user of the committed unload.
C20_Witness ==
    /\ Len(applied) = 2
    /\ AppliedTo("olio") = {1, 2}
    /\ applied[1].user_id = "uidAnna"
    /\ applied[2].user_id = "uidBruno"
    /\ applied[2].movement_record["movementType"] = "scarico"
    /\ resp.op = "movement" /\ resp.client = "c1"
    /\ resp.error = "Insufficient stock."
    /\ products["olio"]["lastUpdatedBy"] = "uidBruno"

\* The first committed transaction of a product, as an index into applied
FirstApplied(p) == CHOOSE i \in AppliedTo(p) : \A j \in AppliedTo(p) : i <= j

\* C21: every product document carries the createdAt that the first
\* committed movement of the product, a load, wrote at its commit; a step
\* that creates a product document is the commit of a load and stamps it with
\* the time of that commit; and no step removes a product document or
\* changes its createdAt.
C21_CreatedAtWrittenOnce ==
    /\ [](\A p \in ProductNames :
            products[p].exists
            => /\ AppliedTo(p) # {}
               /\ applied[FirstApplied(p)].movement_record["movementType"] = "carico"
               /\ "createdAt" \in DOMAIN products[p]
               /\ products[p]["createdAt"] = applied[FirstApplied(p)].ts)
    /\ [][\A p \in ProductNames :
            /\ products[p].exists
               => /\ products'[p].exists
                  /\ products'[p]["createdAt"] = products[p]["createdAt"]
            /\ (~products[p].exists /\ products'[p].exists)
               => /\ \E c \in Clients :
                        /\ pc[c] = "commit" /\ pc'[c] = "append"
                        /\ ProductOf(c) = p
                        /\ Rec(c)["movementType"] = "carico"
                  /\ products'[p]["createdAt"] = ServerTime(DOMAIN applied)
         ]_vars

\* C21 witness: two loads of a product that had no document were under way
\* before either was committed, both are committed and an unload after them,
\* and createdAt is the time of the first commit.
C21_Witness ==
    /\ Len(applied) = 3
    /\ AppliedTo("olio") = {1, 2, 3}
    /\ applied[1].seen = 0 /\ applied[2].seen = 0
    /\ applied[1].movement_record["movementType"] = "carico"
    /\ applied[2].movement_record["movementType"] = "carico"
    /\ applied[3].movement_record["movementType"] = "scarico"
    /\ applied[1].doc["createdAt"] = applied[1].ts
    /\ applied[2].ts # applied[1].ts
    /\ products["olio"]["createdAt"] = applied[1].ts

\* C22: across every step of every operation the log keeps the entries it
\* had, in their places and with the id and the field values they were
\* created with; a step can only add entries after them.
C22_LogAppendOnly ==
    [][/\ Len(movements') >= Len(movements)
       /\ \A i \in DOMAIN movements :
             /\ movements'[i].id = movements[i].id
             /\ movements'[i].data = movements[i].data
      ]_vars

\* C22 witness: the log holds two entries, written one after the other, and
\* a logged-in client has since asked for the product detail.
C22_Witness ==
    /\ Len(movements) = 2
    /\ movements[1].data["createdAt"] = 1
    /\ movements[2].data["createdAt"] = 2
    /\ movements[1].id # movements[2].id
    /\ resp.op = "detail"
    /\ resp.client \in Clients
    /\ LoggedIn(resp.client)

\* The token of the login request is the ID token of an account that exists
TokenOfAccount(id_token) ==
    /\ id_token.t = "str"
    /\ id_token.s \in DOMAIN TokenEmail
    /\ TokenEmail[id_token.s] \in idpUsers

\* C23: the session of a client changes in two ways only: a sessionLogin
\* answered 200, which is one with the token of an existing account, makes it
\* the session of the user of that account, and a logout empties it, also
\* when it was empty. A sessionLogin that fails (no token, an empty one, one
\* that is no string, an invalid or expired one, one of a disabled account),
\* a register and every other step leave every session as it was, and the
\* status response of a client says isLoggedIn and the user_id of its session.
C23_SessionFollowsLastLogin ==
    [][\A c \in Clients :
          LET answered == resp' # resp /\ resp'.client = c
          IN  /\ (answered /\ resp'.op = "sessionLogin")
                 => IF TokenOfAccount(resp'.request["idToken"])
                    THEN /\ resp'.status = 200
                         /\ session'[c]
                               = [user_id |->
                                     UidOf[TokenEmail[resp'.request["idToken"].s]]]
                    ELSE /\ resp'.status \in {400, 401, 403}
                         /\ session'[c] = session[c]
              /\ (answered /\ resp'.op = "logout")
                 => /\ resp'.status = 200
                    /\ session'[c] = EmptyDict
              /\ (answered /\ resp'.op = "status")
                 => /\ resp'.status = 200
                    /\ resp'.body = IF "user_id" \in DOMAIN session[c]
                                    THEN [isLoggedIn |-> TRUE,
                                          user_id |-> session[c]["user_id"]]
                                    ELSE [isLoggedIn |-> FALSE]
              /\ ~(answered /\ resp'.op \in {"sessionLogin", "logout"})
                 => session'[c] = session[c]
      ]_vars

\* C23 witness: a client in the session of one user has just been refused a
\* login with the token of a disabled account and is still in that session,
\* while the other client is logged in as the other user.
C23_Witness ==
    /\ resp.op = "sessionLogin"
    /\ resp.client = "c1"
    /\ resp.status = 403
    /\ session["c1"] = [user_id |-> "uidBruno"]
    /\ session["c2"] = [user_id |-> "uidAnna"]

====
